---- MODULE Spec2Model ----
(***************************************************************************)
(* The violation fingerprint pipeline of viola.py (the same code is in     *)
(* violationFingerprint.py and traffiq_dashboard.py): the JSON file is     *)
(* loaded into a table (load_json_data), the table is sorted by month, and *)
(* create_fingerprint divides each category count by the row's total.      *)
(* cosine_similarity then compares every pair of fingerprints, and the     *)
(* callback update_graphs ranks the periods by similarity to a selected    *)
(* one.                                                                    *)
(*                                                                         *)
(* A float is a pair <<n, d>>: the rational n/d in lowest terms when       *)
(* d > 0, +inf = <<1, 0>>, -inf = <<-1, 0>>, NaN = <<0, 0>>.               *)
(***************************************************************************)
EXTENDS Integers, Sequences, FiniteSets

VARIABLES raw, df, fingerprints, pc, err,
          similarity_matrix, selected_idx, selected_violation, output,
          metrics, map_file, calls, license_df, log

vars == <<raw, df, fingerprints, pc, err,
          similarity_matrix, selected_idx, selected_violation, output,
          metrics, map_file, calls, license_df, log>>

\* the state of the accidents dashboard (app.py) and of the license
\* dashboard (liz.py), which the violation scripts do not have
dashboards == <<metrics, map_file, calls, license_df, log>>

\* the state of the violation scripts beyond the loaded table
violations ==
    <<fingerprints, similarity_matrix, selected_idx, selected_violation, output>>

----------------------------------------------------------------------------
\* Bounds of the model

\* number of periods (records) of the input file
MaxRows == 2
\* a raw file differs from the baseline file (every count 0, total 1) in at
\* most MaxEdits cells
MaxEdits == 2
\* largest count or total written into an edited cell
MaxVal == 2
\* largest factor the scale-invariance check multiplies a record by
MaxScale == 3

----------------------------------------------------------------------------
\* Column names

violation_cols ==
    << "lsr_lzy_d_lrdr_over_speed_radar",
       "mkhlft_qt_lshr_ldwy_y_passing_traffic_signal_violations",
       "mkhlft_lrshdt_walt_ltnbyh_guidlines_and_alarm_signals_violations",
       "mkhlft_llwht_lm_dny_metallic_plates_violations",
       "mkhlft_ltjwz_overtaking_violations",
       "mkhlft_tsjyl_w_dm_tjdyd_lstmr_registration_and_form_non_renewal_violations",
       "mkhlft_rkhs_lqyd_driving_licenses_violations",
       "mkhlft_lhrk_lmrwry_traffic_movement_violations",
       "mkhlft_qw_d_wltzmt_lwqwf_wlntzr_stand_and_wait_rules_and_obligations_violations",
       "khr_other" >>

total_col == "mjmw_lmkhlft_lmrwry_total_traffic_violations"

Range(s) == {s[i] : i \in 1..Len(s)}

Categories == Range(violation_cols)

\* the numeric keys of a record of the JSON file, in the file's key order
FieldOrder == violation_cols \o <<total_col>>

----------------------------------------------------------------------------
\* Floats

NaN == <<0, 0>>
PosInf == <<1, 0>>
NegInf == <<-1, 0>>
Zero == <<0, 1>>

Num(n) == <<n, 1>>

Abs(n) == IF n < 0 THEN -n ELSE n

Sign(n) == IF n < 0 THEN -1 ELSE IF n > 0 THEN 1 ELSE 0

RECURSIVE GCD(_, _)
GCD(a, b) == IF b = 0 THEN a ELSE GCD(b, a % b)

\* the float n/d, d # 0, in lowest terms with a positive denominator
Frac(n, d) ==
    LET g == GCD(Abs(n), Abs(d))
    IN  <<(Sign(d) * n) \div g, Abs(d) \div g>>

IsNaN(v) == v = NaN
IsInf(v) == v[2] = 0 /\ v[1] # 0
IsFinite(v) == v[2] > 0

\* IEEE true division as numpy performs it: x/0 is +-inf, 0/0 and anything
\* with NaN is NaN, no exception is raised
TrueDiv(a, b) ==
    IF IsNaN(a) \/ IsNaN(b) THEN NaN
    ELSE IF IsInf(a) THEN (IF IsInf(b) THEN NaN
                           ELSE IF b[1] < 0 THEN <<-a[1], 0>> ELSE a)
    ELSE IF IsInf(b) THEN Zero
    ELSE IF b[1] = 0 THEN <<Sign(a[1]), 0>>
    ELSE Frac(a[1] * b[2], a[2] * b[1])

----------------------------------------------------------------------------
\* Tables.  A table is [columns: sequence of names, rows: sequence of rows];
\* a row is [idx: its index label, month: its month, cells: name -> float].

NoTable == [columns |-> <<>>, rows |-> <<>>]

ColSet(t) == Range(t.columns)

\* pd.DataFrame(data): the columns are the keys that occur in some record,
\* a key a record lacks is NaN in its row, the index is 0..n-1
DataFrame(data) ==
    LET present(f) == \E i \in 1..Len(data) : f \in DOMAIN data[i].fields
        cols == SelectSeq(FieldOrder, present)
    IN  [columns |-> cols,
         rows |-> [i \in 1..Len(data) |->
                    [idx |-> i - 1,
                     month |-> data[i].month,
                     cells |-> [c \in Range(cols) |->
                                 IF c \in DOMAIN data[i].fields
                                 THEN Num(data[i].fields[c]) ELSE NaN]]]]

\* df.select_dtypes(include=[np.number]).columns: a column that holds a
\* number (a column of nulls only would be of dtype object)
numeric_columns(t) ==
    {c \in ColSet(t) : \E i \in 1..Len(t.rows) : ~IsNaN(t.rows[i].cells[c])}

\* a loader that drops the rows holding a NaN (dropna) instead of filling them
LoadDropNa(t) ==
    LET cols == ColSet(t)
        complete(r) == \A c \in cols : ~IsNaN(r.cells[c])
    IN  [t EXCEPT !.rows = SelectSeq(t.rows, complete)]

\* df[numeric_columns] = df[numeric_columns].fillna(0)
LoadFillNa(t) ==
    LET numeric == numeric_columns(t)
        cols == ColSet(t)
    IN  [t EXCEPT !.rows =
            [i \in 1..Len(t.rows) |->
                [t.rows[i] EXCEPT !.cells =
                    [c \in cols |->
                        IF c \in numeric /\ IsNaN(t.rows[i].cells[c])
                        THEN Zero ELSE t.rows[i].cells[c]]]]]

load_json_data(data) == LoadFillNa(DataFrame(data))

\* df.sort_values('month'): the rows in ascending month order, each keeping
\* its index label
RECURSIVE InsertRow(_, _)
InsertRow(r, s) ==
    IF s = <<>> THEN <<r>>
    ELSE IF r.month < s[1].month THEN <<r>> \o s
    ELSE <<s[1]>> \o InsertRow(r, Tail(s))

RECURSIVE SortRows(_)
SortRows(s) ==
    IF s = <<>> THEN <<>>
    ELSE InsertRow(s[Len(s)], SortRows(SubSeq(s, 1, Len(s) - 1)))

sort_values(t) == [t EXCEPT !.rows = SortRows(t.rows)]

----------------------------------------------------------------------------
\* create_fingerprint

\* a create_fingerprint that synthesizes no column
missing_cols_none(t) == <<>>

\* missing_cols = [col for col in violation_cols if col not in df.columns]
missing_cols(t) ==
    LET cols == ColSet(t)
        absent(c) == c \notin cols
    IN  SelectSeq(violation_cols, absent)

\* for col in missing_cols: df[col] = 0   (on the caller's table)
AddMissingCols(t) ==
    LET miss == missing_cols(t)
        old == ColSet(t)
        all == old \cup Range(miss)
    IN  [columns |-> t.columns \o miss,
         rows |-> [i \in 1..Len(t.rows) |->
                    [t.rows[i] EXCEPT !.cells =
                        [c \in all |->
                            IF c \in old THEN t.rows[i].cells[c]
                            ELSE Zero]]]]

\* the total of the row labelled idx (div aligns the Series on the index)
TotalOf(t, idx) ==
    LET r == CHOOSE r \in Range(t.rows) : r.idx = idx
    IN  r.cells[total_col]

RECURSIVE SumCounts(_, _)
SumCounts(cells, cols) ==
    IF cols = <<>> THEN 0
    ELSE cells[Head(cols)][1] + SumCounts(cells, Tail(cols))

\* a division by the sum of the row's category counts instead of its total
DivRowsBySum(t) ==
    [columns |-> violation_cols,
     rows |-> [i \in 1..Len(t.rows) |->
                LET sum == Num(SumCounts(t.rows[i].cells, violation_cols))
                IN  [idx |-> t.rows[i].idx,
                     vals |-> [c \in Categories |->
                                TrueDiv(t.rows[i].cells[c], sum)]]]]

\* a division of the total by the count (operands swapped)
DivRowsSwapped(t) ==
    [columns |-> violation_cols,
     rows |-> [i \in 1..Len(t.rows) |->
                LET total == TotalOf(t, t.rows[i].idx)
                IN  [idx |-> t.rows[i].idx,
                     vals |-> [c \in Categories |->
                                TrueDiv(total, t.rows[i].cells[c])]]]]

\* a division of every row by the total of the first row
DivRowsFirstTotal(t) ==
    [columns |-> violation_cols,
     rows |-> [i \in 1..Len(t.rows) |->
                [idx |-> t.rows[i].idx,
                 vals |-> [c \in Categories |->
                            TrueDiv(t.rows[i].cells[c],
                                    t.rows[1].cells[total_col])]]]]

\* a division of every row by the total of the row labelled 0
DivRowsLabelZero(t) ==
    [columns |-> violation_cols,
     rows |-> [i \in 1..Len(t.rows) |->
                LET total == TotalOf(t, 0)
                IN  [idx |-> t.rows[i].idx,
                     vals |-> [c \in Categories |->
                                TrueDiv(t.rows[i].cells[c], total)]]]]

\* a division whose result is laid out in the order of the index labels
DivRowsByLabel(t) ==
    [columns |-> violation_cols,
     rows |-> [i \in 1..Len(t.rows) |->
                LET r == CHOOSE r \in Range(t.rows) : r.idx = i - 1
                IN  [idx |-> r.idx,
                     vals |-> [c \in Categories |->
                                TrueDiv(r.cells[c], r.cells[total_col])]]]]

\* df[violation_cols].div(df[total_col], axis=0)
DivRows(t) ==
    [columns |-> violation_cols,
     rows |-> [i \in 1..Len(t.rows) |->
                LET total == TotalOf(t, t.rows[i].idx)
                IN  [idx |-> t.rows[i].idx,
                     vals |-> [c \in Categories |->
                                TrueDiv(t.rows[i].cells[c], total)]]]]

\* a create_fingerprint without the replace step
ReplaceInfSkipped(fp) == fp

\* fingerprints.replace([np.inf, -np.inf], 0)
ReplaceInf(fp) ==
    [fp EXCEPT !.rows =
        [i \in 1..Len(fp.rows) |->
            [fp.rows[i] EXCEPT !.vals =
                [c \in DOMAIN fp.rows[i].vals |->
                    IF IsInf(fp.rows[i].vals[c]) THEN Zero
                    ELSE fp.rows[i].vals[c]]]]]

\* a create_fingerprint without the fillna step
FillNaSkipped(fp) == fp

\* fingerprints.fillna(0)
FillNa(fp) ==
    [fp EXCEPT !.rows =
        [i \in 1..Len(fp.rows) |->
            [fp.rows[i] EXCEPT !.vals =
                [c \in DOMAIN fp.rows[i].vals |->
                    IF IsNaN(fp.rows[i].vals[c]) THEN Zero
                    ELSE fp.rows[i].vals[c]]]]]

\* a create_fingerprint that writes the quotients into the caller's table
create_fingerprint_in_place(t) ==
    LET t1 == AddMissingCols(t)
        cols == ColSet(t1)
    IN  IF total_col \notin cols
        THEN [df |-> t1, ok |-> FALSE, error |-> "KeyError", value |-> NoTable]
        ELSE LET fp == FillNa(ReplaceInf(DivRows(t1)))
             IN  [df |-> [t1 EXCEPT !.rows =
                            [i \in 1..Len(t1.rows) |->
                                [t1.rows[i] EXCEPT !.cells =
                                    [c \in cols |->
                                        IF c \in Categories
                                        THEN fp.rows[i].vals[c]
                                        ELSE t1.rows[i].cells[c]]]]],
                  ok |-> TRUE, error |-> "", value |-> fp]

\* create_fingerprint(df): the table as the call leaves it, and either the
\* fingerprints or the exception raised
create_fingerprint(t) ==
    LET t1 == AddMissingCols(t)
        cols == ColSet(t1)
    IN  IF \E c \in Categories : c \notin cols
        THEN [df |-> t1, ok |-> FALSE, error |-> "KeyError", value |-> NoTable]
        ELSE IF total_col \notin cols
        THEN [df |-> t1, ok |-> FALSE, error |-> "KeyError", value |-> NoTable]
        ELSE [df |-> t1, ok |-> TRUE, error |-> "",
              value |-> FillNa(ReplaceInf(DivRows(t1)))]

----------------------------------------------------------------------------
\* cosine_similarity (sklearn.metrics.pairwise), as viola.py calls it
\*
\* A similarity is [s, n, d, inexact]: the real number s * sqrt(n/d), with
\* s its sign and n/d in lowest terms (d = 0 for NaN).  The float the
\* library returns is that real number when inexact is FALSE; when inexact
\* is TRUE it went through a square root and a division that round, and may
\* differ from the real number in its last bits.

SimZero == [s |-> 0, n |-> 0, d |-> 1, inexact |-> FALSE]
SimOne == [s |-> 1, n |-> 1, d |-> 1, inexact |-> FALSE]

AddF(a, b) == Frac(a[1] * b[2] + b[1] * a[2], a[2] * b[2])
MulF(a, b) == Frac(a[1] * b[1], a[2] * b[2])

\* a dot product that pairs column k of a with column k+1 of b
RECURSIVE DotColsShifted(_, _, _)
DotColsShifted(a, b, cols) ==
    IF cols = <<>> THEN Zero
    ELSE LET next == IF Len(cols) = 1 THEN violation_cols[1] ELSE cols[2]
         IN  AddF(MulF(a[Head(cols)], b[next]),
                  DotColsShifted(a, b, Tail(cols)))

\* sum over the columns of a[c] * b[c]
RECURSIVE DotCols(_, _, _)
DotCols(a, b, cols) ==
    IF cols = <<>> THEN Zero
    ELSE AddF(MulF(a[Head(cols)], b[Head(cols)]), DotCols(a, b, Tail(cols)))

\* the L1 norm of a row, squared
RECURSIVE SumAbs(_, _)
SumAbs(a, cols) ==
    IF cols = <<>> THEN Zero
    ELSE AddF(<<Abs(a[Head(cols)][1]), a[Head(cols)][2]>>, SumAbs(a, Tail(cols)))

row_norms_l1(a, cols) == MulF(SumAbs(a, cols), SumAbs(a, cols))

\* row_norms: the Euclidean norm of a row, kept as its square
row_norms(a, cols) == DotCols(a, a, cols)

\* a normalize that divides by a zero norm
handle_zeros_skipped(norm2) == norm2

\* _handle_zeros_in_scale: a norm of zero is replaced by one
handle_zeros_in_scale(norm2) == IF norm2 = Zero THEN Num(1) ELSE norm2

\* the number of non-zero entries of a row
NonZeros(a) == Cardinality({c \in DOMAIN a : a[c] # Zero})

\* a normalize that leaves the rows as they are
normalize_skipped(X) ==
    [i \in 1..Len(X.rows) |->
        [vals |-> X.rows[i].vals, norm2 |-> Num(1), exact |-> TRUE]]

\* normalize(X): every row divided by its norm.  The row is kept with the
\* square of the norm it is divided by; the division is exact when the row
\* has at most one non-zero entry x (sqrt(x*x) is |x|, x/|x| is +-1).
normalize(X) ==
    [i \in 1..Len(X.rows) |->
        [vals |-> X.rows[i].vals,
         norm2 |-> handle_zeros_in_scale(row_norms(X.rows[i].vals, X.columns)),
         exact |-> NonZeros(X.rows[i].vals) <= 1]]

\* the similarity dot / sqrt(norm2) made of a dot product and a squared norm
SimOf(dot, norm2, inexact) ==
    LET q == TrueDiv(MulF(dot, dot), norm2)
    IN  [s |-> IF q = NaN THEN 0 ELSE Sign(dot[1]),
         n |-> q[1], d |-> q[2], inexact |-> inexact]

\* rounding can touch an entry when some product of the sum is not zero and
\* one of the two rows was divided inexactly
Rounds(a, b) ==
    /\ \E c \in DOMAIN a.vals : a.vals[c] # Zero /\ b.vals[c] # Zero
    /\ ~(a.exact /\ b.exact)

\* an entry divided by the norm of its first row alone
DotEntryFirstNorm(a, b, cols) ==
    SimOf(DotCols(a.vals, b.vals, cols), MulF(a.norm2, a.norm2), Rounds(a, b))

\* one entry of X_normalized . X_normalized^T
DotEntry(a, b, cols) ==
    SimOf(DotCols(a.vals, b.vals, cols), MulF(a.norm2, b.norm2), Rounds(a, b))

\* a product whose diagonal is set to zero
ZeroDiagonalDot(Xn, cols) ==
    [i \in 1..Len(Xn) |->
        [j \in 1..Len(Xn) |->
            IF i = j THEN SimZero ELSE DotEntry(Xn[i], Xn[j], cols)]]

\* safe_sparse_dot(X_normalized, X_normalized.T)
safe_sparse_dot(Xn, cols) ==
    [i \in 1..Len(Xn) |->
        [j \in 1..Len(Xn) |-> DotEntry(Xn[i], Xn[j], cols)]]

\* cosine_similarity(X): check_pairwise_arrays refuses NaN and infinity with
\* a ValueError, otherwise the normalized rows are multiplied
cosine_similarity(X) ==
    IF \E r \in Range(X.rows) : \E c \in DOMAIN r.vals : ~IsFinite(r.vals[c])
    THEN [ok |-> FALSE, error |-> "ValueError", value |-> <<>>]
    ELSE [ok |-> TRUE, error |-> "",
          value |-> safe_sparse_dot(normalize(X), X.columns)]

----------------------------------------------------------------------------
\* The input files: the baseline file has every count 0 and total 1 in each
\* of its n records; a file differs from it in at most MaxEdits cells.

\* an edited count: the key is left out of the record (0), or a count 1..MaxVal
CountEdits == 0..MaxVal
\* an edited total: the key is left out (MaxVal + 1), or a total other than 1
TotalEdits == ((-1)..(MaxVal + 1)) \ {1}

\* the columns whose cells are edited: the first category, the last one and
\* the total (the code treats the ten category columns alike)
EditCols == {violation_cols[1], violation_cols[Len(violation_cols)], total_col}

Cells(n) == (1..n) \X EditCols

EditsOf(cell) == IF cell[2] = total_col THEN TotalEdits ELSE CountEdits

\* the record i of the file with the cells E edited to the values ev
RawFields(i, E, ev) ==
    LET kept == {f \in Range(FieldOrder) :
                    \/ <<i, f>> \notin E
                    \/ f = total_col /\ ev[<<i, f>>] # MaxVal + 1
                    \/ f # total_col /\ ev[<<i, f>>] # 0}
    IN  [f \in kept |->
            IF <<i, f>> \in E THEN ev[<<i, f>>]
            ELSE IF f = total_col THEN 1 ELSE 0]

MonthOrders(n) == {p \in [1..n -> 1..n] : \A i, j \in 1..n : p[i] = p[j] => i = j}

\* The files the similarity engine is run on: every record carries all
\* eleven keys, a total of SimTotals, a count of at most the size of the
\* total in the first and in the last category, 0 in the other eight.  The
\* first two records are any two of these; the records after them follow in
\* the order of their contents (where a record stands in time is varied by
\* the months).
SimTotals == {-1, 1, 2}
SimCounts(t) == 0..Abs(t)

\* the months of these files, record by record: ascending or descending
SimMonthOrders(n) == {[i \in 1..n |-> i], [i \in 1..n |-> n + 1 - i]}

\* a number that orders the contents (total t, counts a and b) of a record
SimCode(a, b, t) == ((t + 1) * (MaxVal + 2) + a) * (MaxVal + 2) + b

SimFields(a, b, t) ==
    [f \in Range(FieldOrder) |->
        IF f = total_col THEN t
        ELSE IF f = violation_cols[1] THEN a
        ELSE IF f = violation_cols[Len(violation_cols)] THEN b
        ELSE 0]

----------------------------------------------------------------------------
\* update_graphs(selected_idx), the callback of the month selector

MonthNames ==
    <<"January", "February", "March", "April", "May", "June", "July",
      "August", "September", "October", "November", "December">>

\* date.strftime('%B %Y'); month m of the model is the m-th month of 2020
strftime(m) == <<MonthNames[m], "2020">>

\* a dropdown whose options are made from the table as loaded, before the
\* sort by month
month_selector_unsorted ==
    LET t == load_json_data(raw)
    IN  [i \in 1..Len(t.rows) |->
            [label |-> strftime(t.rows[i].month), value |-> i - 1]]

\* the options of the dropdown 'month-selector': one per row of df, labelled
\* with the row's month, valued with the row's position counted from 0
month_selector ==
    [i \in 1..Len(df.rows) |->
        [label |-> strftime(df.rows[i].month), value |-> i - 1]]

\* the value None of the selector, and the value k
None == [none |-> TRUE, value |-> 0]
Idx(k) == [none |-> FALSE, value |-> k]

\* the values a callback can be sent for a table of n rows: no value, the
\* values 0..n-1 of the dropdown, and values it does not offer
Selections(n) == {None} \cup {Idx(k) : k \in {-(n + 1), -1} \cup 0..n}

\* similarities * 100
Percent(v) ==
    LET q == Frac(v.n * 10000, v.d)
    IN  [v EXCEPT !.n = q[1], !.d = q[2]]

\* a < b for two similarities
SimLess(a, b) ==
    IF a.s # b.s THEN a.s < b.s
    ELSE IF a.s = 1 THEN a.n * b.d < b.n * a.d
    ELSE IF a.s = -1 THEN a.n * b.d > b.n * a.d
    ELSE FALSE

\* an index read as counting from one
PositionFromOne(k, n) == IF 1 <= k /\ k <= n THEN k ELSE 0

\* iloc[k] and ndarray[k]: the position (from 1) that k selects among n
\* rows, 0 when k is out of bounds (an IndexError)
Position(k, n) ==
    IF 0 <= k /\ k < n THEN k + 1
    ELSE IF -n <= k /\ k < 0 THEN n + k + 1
    ELSE 0

\* a similarity_df whose scores are laid against the months in reverse
similarity_df_reversed(pos) ==
    [p \in 1..Len(similarity_matrix[pos]) |->
        [idx |-> df.rows[p].idx,
         Month |-> strftime(df.rows[p].month),
         Similarity |->
            Percent(similarity_matrix[pos][Len(similarity_matrix[pos]) + 1 - p])]]

\* similarity_df before it is sorted: row p holds the label of the p-th
\* month of df and the p-th entry of the selected row of the matrix
similarity_df(pos) ==
    [p \in 1..Len(similarity_matrix[pos]) |->
        [idx |-> df.rows[p].idx,
         Month |-> strftime(df.rows[p].month),
         Similarity |-> Percent(similarity_matrix[pos][p])]]

\* the orders sort_values('Similarity', ascending=True) would give
AscendingOrders(frame) ==
    {o \in MonthOrders(Len(frame)) :
        \A k \in 1..(Len(frame) - 1) :
            ~SimLess(frame[o[k + 1]].Similarity, frame[o[k]].Similarity)}

\* the orders sort_values('Similarity', ascending=False) can give: the
\* default kind is quicksort, which fixes no order among equal values
DescendingOrders(frame) ==
    {o \in MonthOrders(Len(frame)) :
        \A k \in 1..(Len(frame) - 1) :
            ~SimLess(frame[o[k]].Similarity, frame[o[k + 1]].Similarity)}

NoOutput ==
    [status |-> "none", selected_date |-> 0,
     pareto |-> [c \in Categories |-> Zero], similarity_results |-> <<>>,
     monthly_data |-> <<>>]

----------------------------------------------------------------------------
\* The program: the module-level script of viola.py, lines 76..93, and the
\* callback the server then runs on every selection

\* no metrics computed, no file assets/map.html
NoMetrics == [annual_avg |-> NaN, total_accidents |-> 0]
\* self.license_df = None
NoLicenses == [none |-> TRUE, columns |-> <<>>, rows |-> <<>>]

NoFile == [exists |-> FALSE, written |-> FALSE, vmax |-> 0, polygons |-> {}]

\* nothing has run yet
Start ==
    /\ df = NoTable
    /\ fingerprints = NoTable
    /\ pc = "load"
    /\ err = ""
    /\ similarity_matrix = <<>>
    /\ selected_idx = None
    /\ selected_violation = "None"
    /\ output = NoOutput
    /\ metrics = NoMetrics
    /\ map_file = NoFile
    /\ calls = <<>>
    /\ license_df = NoLicenses
    /\ log = <<>>

Init ==
    /\ \E n \in 1..MaxRows :
       \E E \in {S \in SUBSET Cells(n) : Cardinality(S) <= MaxEdits} :
       \E ev \in [E -> (-1)..(MaxVal + 1)] :
       \E months \in MonthOrders(n) :
          /\ \A cell \in E : ev[cell] \in EditsOf(cell)
          /\ raw = [i \in 1..n |->
                      [month |-> months[i], fields |-> RawFields(i, E, ev)]]
    /\ Start

\* df = load_json_data('viola.json')
Load ==
    /\ pc = "load"
    /\ df' = load_json_data(raw)
    /\ pc' = "sort"
    /\ UNCHANGED <<raw, fingerprints, err, similarity_matrix, selected_idx, selected_violation, output>>
    /\ UNCHANGED dashboards

\* df['month'] = pd.to_datetime(df['month']); df = df.sort_values('month')
Sort ==
    /\ pc = "sort"
    /\ df' = sort_values(df)
    /\ pc' = "fingerprint"
    /\ UNCHANGED <<raw, fingerprints, err, similarity_matrix, selected_idx, selected_violation, output>>
    /\ UNCHANGED dashboards

\* fingerprints = create_fingerprint(df), inside the script's try/except
CreateFingerprint ==
    /\ pc = "fingerprint"
    /\ LET r == create_fingerprint(df)
       IN  /\ df' = r.df
           /\ fingerprints' = r.value
           /\ err' = r.error
           /\ pc' = IF r.ok THEN "similarity" ELSE "failed"
    /\ UNCHANGED <<raw, similarity_matrix, selected_idx, selected_violation, output>>
    /\ UNCHANGED dashboards

Next == Load \/ Sort \/ CreateFingerprint

Spec == Init /\ [][Next]_vars

InitSim ==
    /\ \E n \in 1..MaxRows :
       \E months \in SimMonthOrders(n) :
       \E t \in [1..n -> SimTotals] :
       \E a \in [1..n -> 0..2] :
       \E b \in [1..n -> 0..2] :
          /\ \A i \in 1..n : a[i] \in SimCounts(t[i]) /\ b[i] \in SimCounts(t[i])
          /\ \A i \in 3..n : SimCode(a[i - 1], b[i - 1], t[i - 1]) <= SimCode(a[i], b[i], t[i])
          /\ raw = [i \in 1..n |->
                      [month |-> months[i],
                       fields |-> SimFields(a[i], b[i], t[i])]]
    /\ Start

\* similarity_matrix = cosine_similarity(fingerprints)
CosineSimilarity ==
    /\ pc = "similarity"
    /\ LET r == cosine_similarity(fingerprints)
       IN  /\ similarity_matrix' = r.value
           /\ err' = r.error
           /\ pc' = IF r.ok THEN "serving" ELSE "failed"
    /\ UNCHANGED <<raw, df, fingerprints, selected_idx, selected_violation, output>>
    /\ UNCHANGED dashboards

\* an update_graphs that scales the selected row of the matrix in place
\* (similarities *= 100 on the view similarity_matrix[selected_idx])
UpdateGraphsInPlace(sel) ==
    /\ pc = "serving"
    /\ pc' = "respond"
    /\ selected_idx' = sel
    /\ LET k == IF sel.none THEN 0 ELSE sel.value
           pos == Position(k, Len(fingerprints.rows))
       IN  IF pos = 0
           THEN /\ output' = [NoOutput EXCEPT !.status = "IndexError"]
                /\ UNCHANGED similarity_matrix
           ELSE LET frame == similarity_df(pos)
                IN  /\ similarity_matrix' =
                          [similarity_matrix EXCEPT ![pos] =
                              [p \in 1..Len(frame) |-> frame[p].Similarity]]
                    /\ \E o \in DescendingOrders(frame) :
                          output' =
                            [status |-> "ok",
                             selected_date |-> df.rows[pos].month,
                             pareto |-> fingerprints.rows[pos].vals,
                             similarity_results |->
                                [q \in 1..Len(frame) |-> frame[o[q]]],
                             monthly_data |-> <<>>]
    /\ UNCHANGED <<raw, df, fingerprints, err, selected_violation>>
    /\ UNCHANGED dashboards

\* one call of update_graphs: None is read as 0, the row of the fingerprints
\* and of the matrix is taken by position, the periods are listed by
\* descending similarity; output holds what the call returns (or raises)
UpdateGraphs(sel) ==
    /\ pc = "serving"
    /\ pc' = "respond"
    /\ selected_idx' = sel
    /\ LET k == IF sel.none THEN 0 ELSE sel.value
           pos == Position(k, Len(fingerprints.rows))
       IN  IF pos = 0
           THEN output' = [NoOutput EXCEPT !.status = "IndexError"]
           ELSE LET frame == similarity_df(pos)
                IN  \E o \in DescendingOrders(frame) :
                       output' =
                         [status |-> "ok",
                          selected_date |-> df.rows[pos].month,
                          pareto |-> fingerprints.rows[pos].vals,
                          similarity_results |->
                             [q \in 1..Len(frame) |-> frame[o[q]]],
                          monthly_data |-> <<>>]
    /\ UNCHANGED <<raw, df, fingerprints, err, similarity_matrix, selected_violation>>
    /\ UNCHANGED dashboards

\* the values the violation selector can send: a category, a column of the
\* table that is no category, a name that is no column, and no value
LineSelections == {violation_cols[1], total_col, "unknown_column", "None"}

\* df.groupby([year, month])[v].sum(): one sum per month of the table
monthly_sums(v) ==
    [k \in 1..Len(df.rows) |->
        [month |-> df.rows[k].month,
         value |-> IF IsNaN(df.rows[k].cells[v]) THEN Zero
                   ELSE df.rows[k].cells[v]]]

\* one call of update_monthly_violation_line_chart: an empty figure for a
\* name that is no column of df, the monthly sums of the column otherwise;
\* the title looks the name up in violation_names
UpdateLineChart(v) ==
    /\ pc = "serving"
    /\ pc' = "respond"
    /\ selected_violation' = v
    /\ output' =
          IF v \notin ColSet(df) THEN [NoOutput EXCEPT !.status = "empty"]
          ELSE IF v \notin Categories THEN [NoOutput EXCEPT !.status = "KeyError"]
          ELSE [NoOutput EXCEPT !.status = "figure",
                                !.monthly_data = monthly_sums(v)]
    /\ UNCHANGED <<raw, df, fingerprints, err, similarity_matrix, selected_idx>>
    /\ UNCHANGED dashboards

\* the server sends the outputs (or the error) to the browser and waits for
\* the next selection; nothing of the call is kept
Respond ==
    /\ pc = "respond"
    /\ pc' = "serving"
    /\ selected_idx' = None
    /\ selected_violation' = "None"
    /\ output' = NoOutput
    /\ UNCHANGED <<raw, df, fingerprints, err, similarity_matrix>>
    /\ UNCHANGED dashboards

\* the whole batch, lines 79..93, run on the files with absent keys
InitBatch ==
    /\ \E n \in 1..MaxRows :
       \E E \in {S \in SUBSET Cells(n) : Cardinality(S) <= MaxEdits} :
       \E ev \in [E -> (-1)..(MaxVal + 1)] :
       \E months \in SimMonthOrders(n) :
          /\ \A cell \in E : ev[cell] \in EditsOf(cell)
          /\ raw = [i \in 1..n |->
                      [month |-> months[i], fields |-> RawFields(i, E, ev)]]
    /\ Start

NextBatch == Next \/ CosineSimilarity

SpecBatch == InitBatch /\ [][NextBatch]_vars

NextSim ==
    \/ Next
    \/ CosineSimilarity
    \/ \E sel \in Selections(Len(raw)) : UpdateGraphs(sel)
    \/ \E v \in LineSelections : UpdateLineChart(v)
    \/ Respond

SpecSim == InitSim /\ [][NextSim]_vars

----------------------------------------------------------------------------
\* What the claims speak of

\* create_fingerprint has been called / has returned a table
Called == pc \in {"similarity", "failed"}
Returned == pc = "similarity"

Records == 1..Len(raw)

HasField(i, f) == f \in DOMAIN raw[i].fields

\* category_counts[c] of record i: a category the record lacks counts 0
RawCount(i, c) == IF HasField(i, c) THEN raw[i].fields[c] ELSE 0

HasTotal(i) == HasField(i, total_col)
RawTotal(i) == raw[i].fields[total_col]

\* the rows of the fingerprint table that belong to record i (index label i-1)
FpRowsOf(i) == {r \in Range(fingerprints.rows) : r.idx = i - 1}

AllZero(r) == \A c \in Categories : r.vals[c] = Zero

\* lines 79..86 of the script as one function of the file's records
Pipeline(data) == create_fingerprint(sort_values(load_json_data(data)))

\* the file with key c of record i written as v
WithField(data, i, c, v) ==
    [data EXCEPT ![i].fields =
        [f \in DOMAIN data[i].fields \cup {c} |->
            IF f = c THEN v ELSE data[i].fields[f]]]

\* the file with every count and the total of record i multiplied by k
ScaleRecord(data, i, k) ==
    [data EXCEPT ![i].fields =
        [f \in DOMAIN data[i].fields |-> k * data[i].fields[f]]]

----------------------------------------------------------------------------
\* C1: for every input table that carries the total column (the record shape
\* of the data model; a file with no total at all is the case of C6), also
\* one that lacks any of the ten category columns, create_fingerprint does
\* not fail and returns one row per record whose keys are exactly the ten
\* fixed categories in the fixed order; a column absent from the input is 0
\* in every row, and no other input column (the total) is carried over.
C1_FixedCategorySet ==
    (Called /\ \E i \in Records : HasTotal(i)) =>
        /\ Returned
        /\ fingerprints.columns = violation_cols
        /\ Len(fingerprints.rows) = Len(raw)
        /\ \A r \in Range(fingerprints.rows) :
              /\ DOMAIN r.vals = Categories
              /\ \A c \in Categories :
                    (\A i \in Records : ~HasField(i, c)) => r.vals[c] = Zero

\* a table of two records that lacks a category column went through
C1_Witness ==
    /\ Returned
    /\ Len(raw) >= 2
    /\ \E c \in Categories : \A i \in Records : ~HasField(i, c)

\* C2: no value of a returned fingerprint table is NaN, +inf or -inf: every
\* cell whose quotient count / total is not finite holds 0.
C2_NoNonFinite ==
    Returned =>
        \A p \in 1..Len(fingerprints.rows) : \A c \in Categories :
            LET v == fingerprints.rows[p].vals[c]
                q == TrueDiv(df.rows[p].cells[c], df.rows[p].cells[total_col])
            IN  /\ IsFinite(v)
                /\ ~IsFinite(q) => v = Zero

\* a returned table one of whose rows had a 0/0 and a count/0 quotient
C2_Witness ==
    /\ Returned
    /\ \E p \in 1..Len(df.rows) : \E c1, c2 \in Categories :
          /\ TrueDiv(df.rows[p].cells[c1], df.rows[p].cells[total_col]) = NaN
          /\ TrueDiv(df.rows[p].cells[c2], df.rows[p].cells[total_col]) = PosInf

\* C3: for every record with total_count > 0 and every category c, the
\* record's fingerprint value v = n/d satisfies n * total = count[c] * d,
\* with the count and the total of that same record.
C3_RowWiseQuotient ==
    Returned =>
        \A i \in Records : (HasTotal(i) /\ RawTotal(i) > 0) =>
            /\ FpRowsOf(i) # {}
            /\ \A r \in FpRowsOf(i) : \A c \in Categories :
                  /\ IsFinite(r.vals[c])
                  /\ r.vals[c][1] * RawTotal(i) = RawCount(i, c) * r.vals[c][2]

\* two records with different positive totals, the file not in month order,
\* and a quotient that is no integer
C3_Witness ==
    /\ Returned
    /\ \E i, j \in Records :
          /\ i < j /\ raw[i].month > raw[j].month
          /\ HasTotal(i) /\ HasTotal(j)
          /\ RawTotal(i) > 0 /\ RawTotal(j) > 0 /\ RawTotal(i) # RawTotal(j)
          /\ \E c \in Categories : \E r \in FpRowsOf(j) : r.vals[c][2] > 1

\* C4: for every record whose total_count is 0 the call does not fail and
\* the record's fingerprint is all zeros, whatever its counts are.
C4_ZeroTotal ==
    Called =>
        \A i \in Records : (HasTotal(i) /\ RawTotal(i) = 0) =>
            /\ Returned
            /\ FpRowsOf(i) # {}
            /\ \A r \in FpRowsOf(i) : AllZero(r)

\* a record with total 0 and a positive count went through
C4_Witness ==
    /\ Returned
    /\ \E i \in Records :
          /\ HasTotal(i) /\ RawTotal(i) = 0
          /\ \E c \in Categories : RawCount(i, c) > 0

\* C5 (as claimed): for every record whose total_count is negative the
\* fingerprint is all zeros.
C5_NegativeTotalAllZero ==
    Returned =>
        \A i \in Records : (HasTotal(i) /\ RawTotal(i) < 0) =>
            \A r \in FpRowsOf(i) : AllZero(r)

\* C6 (as claimed): for every record that carries no total_count, loading
\* followed by create_fingerprint does not fail and yields an all-zero
\* fingerprint for that record.
C6_MissingTotalAllZero ==
    Called =>
        \A i \in Records : ~HasTotal(i) =>
            /\ Returned
            /\ FpRowsOf(i) # {}
            /\ \A r \in FpRowsOf(i) : AllZero(r)

\* C7: a category that record i lacks while another record carries it is
\* treated as count 0 for record i: the outcome of the call (the fingerprint
\* table, or the failure) is the one the file with an explicit 0 there has,
\* the component is 0, and when some record carries a total no error is
\* raised.
C7_AbsentValueIsZero ==
    Called =>
        \A i \in Records : \A c \in Categories :
            (~HasField(i, c) /\ \E j \in Records : HasField(j, c)) =>
                LET filled == Pipeline(WithField(raw, i, c, 0))
                IN  /\ filled.ok = Returned
                    /\ filled.value = fingerprints
                    /\ (\E j \in Records : HasTotal(j)) => Returned
                    /\ Returned =>
                          /\ FpRowsOf(i) # {}
                          /\ \A r \in FpRowsOf(i) : r.vals[c] = Zero

\* a record that lacks a category another record carries, with a positive
\* count elsewhere in the record, went through
C7_Witness ==
    /\ Returned
    /\ \E i \in Records : \E c, c2 \in Categories :
          /\ ~HasField(i, c) /\ \E j \in Records : HasField(j, c)
          /\ RawCount(i, c2) > 0
          /\ HasTotal(i) /\ RawTotal(i) > 0

\* C8 (as claimed): for every record with total_count > 0 and non-negative
\* counts, each fingerprint value lies in [0, 1].
C8_UnitInterval ==
    Returned =>
        \A i \in Records :
            (/\ HasTotal(i) /\ RawTotal(i) > 0
             /\ \A c \in Categories : RawCount(i, c) >= 0) =>
                \A r \in FpRowsOf(i) : \A c \in Categories :
                    /\ IsFinite(r.vals[c])
                    /\ 0 <= r.vals[c][1]
                    /\ r.vals[c][1] <= r.vals[c][2]

\* C8 (amended): for every record with total_count > 0 and non-negative
\* counts, each fingerprint value is finite and >= 0, and it is <= 1 for
\* every category whose count does not exceed total_count.
C8_UnitIntervalWhenCountWithinTotal ==
    Returned =>
        \A i \in Records :
            (/\ HasTotal(i) /\ RawTotal(i) > 0
             /\ \A c \in Categories : RawCount(i, c) >= 0) =>
                /\ FpRowsOf(i) # {}
                /\ \A r \in FpRowsOf(i) : \A c \in Categories :
                      /\ IsFinite(r.vals[c])
                      /\ 0 <= r.vals[c][1]
                      /\ RawCount(i, c) <= RawTotal(i) =>
                            r.vals[c][1] <= r.vals[c][2]

\* a record whose count is positive and below its total: a value strictly
\* between 0 and 1
C8_Witness ==
    /\ Returned
    /\ \E i \in Records : \E c \in Categories :
          /\ HasTotal(i) /\ 0 < RawCount(i, c) /\ RawCount(i, c) < RawTotal(i)
          /\ \E r \in FpRowsOf(i) :
                0 < r.vals[c][1] /\ r.vals[c][1] < r.vals[c][2]

\* C9: for every record with total_count > 0 and every factor k in
\* 1..MaxScale, the file in which that record's counts and total are
\* multiplied by k gives the record the same fingerprint.
C9_ScaleInvariance ==
    Returned =>
        \A i \in Records : (HasTotal(i) /\ RawTotal(i) > 0) =>
            \A k \in 1..MaxScale :
                LET scaled == Pipeline(ScaleRecord(raw, i, k))
                IN  /\ scaled.ok
                    /\ FpRowsOf(i) # {}
                    /\ {r \in Range(scaled.value.rows) : r.idx = i - 1}
                          = FpRowsOf(i)

\* a second record with a positive count and a total above 1 went through
C9_Witness ==
    /\ Returned
    /\ \E i \in Records : \E c \in Categories :
          /\ i > 1 /\ HasTotal(i) /\ RawTotal(i) > 1 /\ RawCount(i, c) > 0
          /\ \E r \in FpRowsOf(i) : r.vals[c][2] > 1

\* C10 (as claimed): after create_fingerprint the table passed to it has the
\* columns and the values it had before the call.
C10_InputUnchanged ==
    Called => df = sort_values(load_json_data(raw))

----------------------------------------------------------------------------
\* What the claims about the similarity engine speak of

\* cosine_similarity has returned the matrix and the server takes callbacks
Serving == pc = "serving"

\* the periods, by their position in the sorted table (period i of the
\* spec, counted from 0, is position i + 1)
Periods == 1..Len(fingerprints.rows)

\* F[i]: the fingerprint of the period at position i
F(i) == fingerprints.rows[i].vals

NonZero(i) == \E c \in Categories : F(i)[c] # Zero

\* dot(a, b) over the ten fixed categories
RECURSIVE SumOver(_, _, _)
SumOver(S, a, b) ==
    IF S = {} THEN Zero
    ELSE LET c == CHOOSE c \in S : TRUE
         IN  AddF(MulF(a[c], b[c]), SumOver(S \ {c}, a, b))

dot(a, b) == SumOver(Categories, a, b)

\* the real value of a similarity, squared
Squared(v) == <<v.n, v.d>>

----------------------------------------------------------------------------
\* C11: for every pair of periods i, j whose fingerprints are both non-zero,
\* similarity_matrix[i][j] is dot(F[i], F[j]) / (norm(F[i]) * norm(F[j]))
\* over the ten categories: its square times |F[i]|^2 |F[j]|^2 is dot^2,
\* and it has the sign of dot.
C11_CosineFormula ==
    Serving =>
        \A i, j \in Periods :
            NonZero(i) /\ NonZero(j) =>
                LET m == similarity_matrix[i][j]
                    d == dot(F(i), F(j))
                IN  /\ m.d > 0
                    /\ MulF(Squared(m), MulF(dot(F(i), F(i)), dot(F(j), F(j))))
                         = MulF(d, d)
                    /\ m.s = Sign(d[1])

\* two different periods with non-zero fingerprints that are neither
\* orthogonal nor parallel, one of them of norm other than 1
C11_Witness ==
    /\ Serving
    /\ \E i, j \in Periods :
          /\ i # j /\ NonZero(i) /\ NonZero(j)
          /\ dot(F(i), F(i)) # Num(1)
          /\ Squared(similarity_matrix[i][j]) \notin {Zero, Num(1)}

----------------------------------------------------------------------------
\* C12: the similarity matrix is square of size n, the number of periods,
\* and symmetric: matrix[i][j] = matrix[j][i] for all i, j, also for pairs
\* that involve an all-zero fingerprint.
C12_SquareSymmetric ==
    Serving =>
        /\ Len(similarity_matrix) = Len(raw)
        /\ \A i \in 1..Len(raw) :
              /\ Len(similarity_matrix[i]) = Len(raw)
              /\ \A j \in 1..Len(raw) :
                    similarity_matrix[i][j] = similarity_matrix[j][i]

\* two periods of different norms whose similarity is not zero
C12_Witness ==
    /\ Serving
    /\ \E i, j \in Periods :
          /\ i # j
          /\ dot(F(i), F(i)) # dot(F(j), F(j))
          /\ similarity_matrix[i][j].s # 0
          /\ similarity_matrix[j][i].s # 0

----------------------------------------------------------------------------
----------------------------------------------------------------------------
\* C14: for every period C whose fingerprint is all-zero, matrix[C][j] is
\* 0.0 for every period j, j = C included: it is never NaN and the matrix
\* computation does not fail.
C14_ZeroVectorIsZero ==
    /\ err # "ValueError"
    /\ Serving =>
          \A C \in Periods :
              ~NonZero(C) =>
                  \A j \in Periods :
                      /\ similarity_matrix[C][j] = SimZero
                      /\ similarity_matrix[j][C] = SimZero

\* an all-zero period next to a period that is not
C14_Witness ==
    /\ Serving
    /\ \E C, j \in Periods :
          /\ ~NonZero(C)
          /\ NonZero(j)
          /\ similarity_matrix[C][C] = SimZero
          /\ similarity_matrix[C][j] = SimZero

----------------------------------------------------------------------------
\* the position, in the sorted table, of record i of the file
PosOf(i) == CHOOSE p \in Periods : fingerprints.rows[p].idx = i - 1

\* record j is record i with every count and the total multiplied by k
MultipleOf(j, i, k) ==
    /\ DOMAIN raw[j].fields = DOMAIN raw[i].fields
    /\ \A f \in DOMAIN raw[i].fields : raw[j].fields[f] = k * raw[i].fields[f]

\* records i and j are positive multiples of each other, with a positive
\* total and some non-zero count
Proportional(i, j) ==
    /\ i # j
    /\ HasTotal(i) /\ RawTotal(i) > 0
    /\ \E c \in Categories : RawCount(i, c) # 0
    /\ \E k \in 1..MaxScale : MultipleOf(j, i, k) \/ MultipleOf(i, j, k)

----------------------------------------------------------------------------
\* the categories in which record i has a non-zero count
Support(i) == {c \in Categories : RawCount(i, c) # 0}

\* C16: two periods with positive totals whose non-zero category counts
\* fall in disjoint sets of categories have similarity exactly 0.0.
C16_DisjointIsZero ==
    Serving =>
        \A i, j \in Records :
            /\ HasTotal(i) /\ RawTotal(i) > 0
            /\ HasTotal(j) /\ RawTotal(j) > 0
            /\ Support(i) \cap Support(j) = {}
            => similarity_matrix[PosOf(i)][PosOf(j)] = SimZero

\* all of one period's count in the first category, all of the other's in
\* the last
C16_Witness ==
    /\ Serving
    /\ \E i, j \in Records :
          /\ RawTotal(i) > 0 /\ RawTotal(j) > 0
          /\ Support(i) = {violation_cols[1]}
          /\ Support(j) = {violation_cols[Len(violation_cols)]}
          /\ NonZero(PosOf(i)) /\ NonZero(PosOf(j))
          /\ similarity_matrix[PosOf(i)][PosOf(j)] = SimZero

----------------------------------------------------------------------------
\* What the claims about the ranking speak of

\* update_graphs has just returned its outputs
Answered == pc = "respond" /\ output.status = "ok"

\* the call was made with a valid index i, 0 <= i < n
ValidIndex ==
    /\ ~selected_idx.none
    /\ 0 <= selected_idx.value
    /\ selected_idx.value < Len(raw)

\* the position of the selected period, and the list the call returned
Selected == selected_idx.value + 1
Ranked == output.similarity_results

\* the places of the ranked list that show record r of the file
PlacesOf(r) == {q \in 1..Len(Ranked) : Ranked[q].idx = r - 1}

----------------------------------------------------------------------------
\* C17: for every valid index i, the ranked list for i holds every one of
\* the n periods exactly once, period i included, and the entry of period j
\* carries the month of j and the score matrix[i][j] in percent.
C17_RankingCompleteAligned ==
    Answered /\ ValidIndex =>
        /\ Len(Ranked) = Len(raw)
        /\ \A r \in Records :
              /\ Cardinality(PlacesOf(r)) = 1
              /\ \A q \in PlacesOf(r) :
                    LET m == similarity_matrix[Selected][PosOf(r)]
                    IN  /\ Ranked[q].Month = strftime(raw[r].month)
                        /\ Ranked[q].Similarity.s = m.s
                        /\ Squared(Ranked[q].Similarity)
                              = MulF(Num(10000), Squared(m))
                        /\ Ranked[q].Similarity.inexact = m.inexact

\* a file that is not in month order, a selection other than the first
\* period, and two different scores in the list
C17_Witness ==
    /\ Answered /\ ValidIndex
    /\ selected_idx.value > 0
    /\ Len(raw) > 1
    /\ raw[1].month > raw[2].month
    /\ Ranked[1].Similarity # Ranked[2].Similarity
    /\ Ranked[2].Similarity.s # 0

----------------------------------------------------------------------------
\* the position, in the sorted table, of the period shown at place q
PeriodAt(q) == PosOf(Ranked[q].idx + 1)

\* matrix[i][p], the similarity of the selected period to the one at place q
ScoreAt(q) == similarity_matrix[Selected][PeriodAt(q)]

\* a >= b for two similarities (x -> sign(x) * x^2 is increasing)
AtLeast(a, b) == a.s * a.n * b.d >= b.s * b.n * a.d

----------------------------------------------------------------------------
\* C19 (as claimed): in the ranked list for any index i, two periods with
\* identical similarity scores appear in ascending chronological order.
C19_TiesChronological ==
    Answered /\ ValidIndex =>
        \A q1, q2 \in 1..Len(Ranked) :
            /\ q1 < q2
            /\ ScoreAt(q1) = ScoreAt(q2)
            /\ ~ScoreAt(q1).inexact
            => PeriodAt(q1) < PeriodAt(q2)

----------------------------------------------------------------------------
\* the fingerprint of p is a positive multiple of the fingerprint of i
ParallelTo(p, i) ==
    /\ dot(F(p), F(i))[1] > 0
    /\ \A c1, c2 \in Categories :
          MulF(F(p)[c1], F(i)[c2]) = MulF(F(p)[c2], F(i)[c1])

\* C20: for every valid index i whose fingerprint is non-zero, the first
\* entry of the ranked list for i is period i itself, also when another
\* period has a fingerprint proportional or identical to that of i.
C20_SelfFirst ==
    Answered /\ ValidIndex /\ NonZero(Selected) => PeriodAt(1) = Selected

\* C20 as amended: for every valid index i whose fingerprint is non-zero,
\* the first entry of the ranked list for i is period i or a period whose
\* fingerprint is a positive multiple of that of i; it is period i when no
\* other period has such a fingerprint.
C20_SelfOrParallelFirst ==
    Answered /\ ValidIndex /\ NonZero(Selected) =>
        /\ PeriodAt(1) = Selected \/ ParallelTo(PeriodAt(1), Selected)
        /\ (\A p \in Periods \ {Selected} : ~ParallelTo(p, Selected))
              => PeriodAt(1) = Selected

\* the list of a non-zero period opens with another period: one whose
\* fingerprint is a multiple, not a copy, of the selected one
C20_Witness ==
    /\ Answered /\ ValidIndex /\ NonZero(Selected)
    /\ PeriodAt(1) # Selected
    /\ F(PeriodAt(1)) # F(Selected)
    /\ ParallelTo(PeriodAt(1), Selected)

----------------------------------------------------------------------------
\* C21 (as claimed): a call of update_graphs with an integer index outside
\* [0, n), index >= n or any negative index, fails with an error; it never
\* returns the ranking of some period.
C21_OutOfRangeFails ==
    /\ pc = "respond"
    /\ ~selected_idx.none
    /\ selected_idx.value < 0 \/ selected_idx.value >= Len(raw)
    => output.status = "IndexError"

----------------------------------------------------------------------------
\* the matrix has been computed (the server is idle or has just answered)
Computed == pc \in {"serving", "respond"}

\* C22: the fingerprint table has as many rows as the input table, in the
\* same order: row k of the fingerprints is derived from row k of the table
\* passed to create_fingerprint (the file's records in month order); the
\* similarity matrix is n x n and its row and column k refer to that row k.
C22_RowsAligned ==
    Serving =>
        /\ Len(df.rows) = Len(raw)
        /\ Len(fingerprints.rows) = Len(raw)
        /\ Len(similarity_matrix) = Len(raw)
        /\ \A k \in 1..Len(raw) :
              LET rec == raw[df.rows[k].idx + 1]
                  total == rec.fields[total_col]
              IN  /\ fingerprints.rows[k].idx = df.rows[k].idx
                  /\ df.rows[k].month = rec.month
                  /\ \A c \in Categories :
                        MulF(F(k)[c], Num(total)) = Num(rec.fields[c])
                  /\ Len(similarity_matrix[k]) = Len(raw)
                  /\ \A l \in 1..Len(raw) :
                        LET m == similarity_matrix[k][l]
                            d == dot(F(k), F(l))
                        IN  /\ m.s = Sign(d[1])
                            /\ MulF(Squared(m), MulF(handle_zeros_in_scale(dot(F(k), F(k))),
                                                     handle_zeros_in_scale(dot(F(l), F(l)))))
                                  = MulF(d, d)

\* a file that is not in month order, with two different fingerprints
C22_Witness ==
    /\ Serving
    /\ Len(raw) > 1
    /\ df.rows[1].idx # 0
    /\ F(1) # F(2)
    /\ NonZero(1) /\ NonZero(2)
    /\ similarity_matrix[1][2].s # 0

----------------------------------------------------------------------------
\* the file with its records in the order o
Permuted(data, o) == [i \in 1..Len(data) |-> data[o[i]]]

\* lines 79..93 of the script as one function of the file's records: the
\* months of the sorted table, the fingerprints and the matrix
Batch(data) ==
    LET p == Pipeline(data)
        sim == IF p.ok THEN cosine_similarity(p.value)
               ELSE [ok |-> FALSE, error |-> p.error, value |-> <<>>]
    IN  [ok |-> p.ok /\ sim.ok,
         months |-> [k \in 1..Len(p.df.rows) |-> p.df.rows[k].month],
         df |-> p.df,
         vals |-> [k \in 1..Len(p.value.rows) |-> p.value.rows[k].vals],
         fingerprints |-> p.value,
         similarity_matrix |-> sim.value]

\* C23: the order of the records does not affect the computed values: for
\* any permutation of the file's records each period has the same
\* fingerprint, and any two periods the same similarity.
C23_OrderIndependent ==
    Serving =>
        \A o \in MonthOrders(Len(raw)) :
            LET b == Batch(Permuted(raw, o))
            IN  /\ b.ok
                /\ b.months = [k \in Periods |-> df.rows[k].month]
                /\ b.vals = [k \in Periods |-> F(k)]
                /\ b.similarity_matrix = similarity_matrix

\* a file whose records differ in their totals and their fingerprints, so
\* that swapping the records changes which total comes first
C23_Witness ==
    /\ Serving
    /\ Len(raw) > 1
    /\ RawTotal(1) # RawTotal(2)
    /\ F(1) # F(2)
    /\ NonZero(1) /\ NonZero(2)
    /\ similarity_matrix[1][2].s # 0

----------------------------------------------------------------------------
\* C24: the batch transform is idempotent and deterministic: a second run
\* of create_fingerprint and of the similarity computation on the same
\* input table, also on the table object the first run was given, yields
\* the fingerprints and the matrix of the first run.
C24_Idempotent ==
    Serving =>
        LET again == create_fingerprint(df)
            fresh == Batch(raw)
        IN  /\ again.ok
            /\ again.df = df
            /\ again.value = fingerprints
            /\ cosine_similarity(again.value).value = similarity_matrix
            /\ fresh.ok
            /\ fresh.df = df
            /\ fresh.fingerprints = fingerprints
            /\ fresh.similarity_matrix = similarity_matrix

\* the first run was given a table that lacked a category column, and it
\* added the column to that table
C24_Witness ==
    /\ Serving
    /\ missing_cols(sort_values(load_json_data(raw))) # <<>>
    /\ Len(df.columns) > Len(load_json_data(raw).columns)
    /\ \E k \in Periods : NonZero(k)

----------------------------------------------------------------------------
\* C25: once computed, the fingerprint table and the similarity matrix are
\* immutable: after any sequence of update_graphs and
\* update_monthly_violation_line_chart calls with any arguments, the
\* fingerprints, the matrix and the source table hold the values they had
\* when first computed.
C25_CallbacksKeepTables ==
    [][Computed => /\ df' = df
                   /\ fingerprints' = fingerprints
                   /\ similarity_matrix' = similarity_matrix]_vars

\* update_graphs has just answered for a period whose scores are not all
\* zero (scaling that row would show)
C25_Witness ==
    /\ Answered
    /\ \E q \in 1..Len(Ranked) : Ranked[q].Similarity.s # 0
    /\ similarity_matrix = Batch(raw).similarity_matrix

\* update_monthly_violation_line_chart has just drawn a category
C25_WitnessLine ==
    /\ pc = "respond"
    /\ output.status = "figure"
    /\ \E k \in 1..Len(output.monthly_data) : output.monthly_data[k].value # Zero

----------------------------------------------------------------------------
\* the record of the file that is the i-th (from 0) in ascending month order
RecordOfRank(i) ==
    CHOOSE r \in Records :
        Cardinality({q \in Records : raw[q].month < raw[r].month}) = i

\* the index a call works with: None is read as 0
Effective == IF selected_idx.none THEN 0 ELSE selected_idx.value

\* update_graphs has just returned or raised
GraphsCalled == pc = "respond" /\ output.status \in {"ok", "IndexError"}

\* the call was made with a value the dropdown offers, or with None
Offered ==
    selected_idx.none
    \/ \E o \in 1..Len(month_selector) :
          month_selector[o].value = selected_idx.value

\* C26: the dropdown offers exactly the values 0..n-1, and for each offered
\* value i the label, the month of the chart title, fingerprints.iloc[i] and
\* similarity_matrix[i] all refer to the i-th record in ascending month
\* order, also when the file is not sorted by month; None is treated as 0.
C26_SelectorConsistent ==
    /\ Serving =>
          /\ Len(month_selector) = Len(raw)
          /\ \A i \in 1..Len(raw) :
                /\ month_selector[i].value = i - 1
                /\ month_selector[i].label = strftime(raw[RecordOfRank(i - 1)].month)
    /\ GraphsCalled /\ Offered =>
          LET r == RecordOfRank(Effective)
              total == raw[r].fields[total_col]
          IN  /\ output.status = "ok"
              /\ output.selected_date = raw[r].month
              /\ \A c \in Categories :
                    MulF(output.pareto[c], Num(total)) = Num(raw[r].fields[c])
              /\ \A q \in 1..Len(Ranked) :
                    LET m == Ranked[q].Similarity
                        a == F(PosOf(r))
                        b == F(PosOf(Ranked[q].idx + 1))
                        d == dot(a, b)
                    IN  /\ m.s = Sign(d[1])
                        /\ MulF(Squared(m), MulF(handle_zeros_in_scale(dot(a, a)),
                                                 handle_zeros_in_scale(dot(b, b))))
                              = MulF(Num(10000), MulF(d, d))

\* a file that is not in month order, and the second value of the dropdown
\* selected
C26_Witness ==
    /\ Answered /\ ValidIndex
    /\ Len(raw) > 1
    /\ raw[1].month > raw[2].month
    /\ selected_idx.value = 1
    /\ output.selected_date = raw[1].month
    /\ NonZero(1) /\ NonZero(2)
    /\ F(1) # F(2)

----------------------------------------------------------------------------
\* The accidents dashboard of app.py (class QatarAccidentsDashboard).
\*
\* A string is the sequence of its characters.  The file facc.csv is the
\* sequence raw of its rows [ZONE, ACCIDENT_YEAR], ZONE being the text
\* astype(str) makes of the cell; the table self.df is the variable df.

Digits == <<"0", "1", "2", "3", "4", "5", "6", "7", "8", "9">>

DigitValue(ch) == (CHOOSE k \in 1..10 : Digits[k] = ch) - 1

Unknown == <<"U", "n", "k", "n", "o", "w", "n">>

\* str.strip(): leading and trailing blanks removed
RECURSIVE strip(_)
strip(x) ==
    IF x = <<>> THEN x
    ELSE IF Head(x) = " " THEN strip(Tail(x))
    ELSE IF x[Len(x)] = " " THEN strip(SubSeq(x, 1, Len(x) - 1))
    ELSE x

\* x.replace('.', '')
replace_dots(x) ==
    LET keep(ch) == ch # "."
    IN  SelectSeq(x, keep)

\* str.isdigit(): not empty and every character a digit
isdigit(x) == x # <<>> /\ \A k \in 1..Len(x) : x[k] \in Range(Digits)

\* the number written by a string of digits (0 for the empty string)
RECURSIVE DigitsValue(_)
DigitsValue(x) ==
    IF x = <<>> THEN 0
    ELSE 10 * DigitsValue(SubSeq(x, 1, Len(x) - 1)) + DigitValue(x[Len(x)])

\* the positions of the dots of a string
Dots(x) == {k \in 1..Len(x) : x[k] = "."}

\* float(x) for a string of digits and dots: it is a number when it has at
\* most one dot, and raises ValueError otherwise
float_parses(x) == Cardinality(Dots(x)) <= 1

\* int(float(x)): the digits before the dot
int_float(x) ==
    IF Dots(x) = {} THEN DigitsValue(x)
    ELSE LET dot_at == CHOOSE k \in Dots(x) : TRUE
         IN  DigitsValue(SubSeq(x, 1, dot_at - 1))

\* str(n) for an integer n >= 0
RECURSIVE str_int(_)
str_int(n) ==
    IF n < 10 THEN <<Digits[n + 1]>>
    ELSE Append(str_int(n \div 10), Digits[(n % 10) + 1])

\* the cleaning that answers 'Unknown' wherever float() would raise
clean_zone_guarded(x) ==
    IF isdigit(replace_dots(x)) /\ float_parses(x)
    THEN [ok |-> TRUE, error |-> "", value |-> str_int(int_float(x))]
    ELSE [ok |-> TRUE, error |-> "", value |-> Unknown]

\* lambda x: str(int(float(x))) if x.replace('.', '').isdigit() else 'Unknown'
clean_zone(x) ==
    IF isdigit(replace_dots(x))
    THEN IF float_parses(x)
         THEN [ok |-> TRUE, error |-> "", value |-> str_int(int_float(x))]
         ELSE [ok |-> FALSE, error |-> "ValueError", value |-> <<>>]
    ELSE [ok |-> TRUE, error |-> "", value |-> Unknown]

\* load_data: ZONE is stripped and cleaned row by row; an exception of the
\* lambda leaves load_data, and the constructor, by that exception
load_accidents(rows) ==
    LET cleaned == [k \in 1..Len(rows) |-> clean_zone(strip(rows[k].ZONE))]
    IN  IF \E k \in 1..Len(rows) : ~cleaned[k].ok
        THEN [ok |-> FALSE, error |-> "ValueError", value |-> NoTable]
        ELSE [ok |-> TRUE, error |-> "",
              value |-> [columns |-> <<"ZONE", "ACCIDENT_YEAR">>,
                         rows |-> [k \in 1..Len(rows) |->
                                     [ZONE |-> cleaned[k].value,
                                      ACCIDENT_YEAR |-> rows[k].ACCIDENT_YEAR]]]]

\* the first year of the "recent" accidents of calculate_metrics
RecentFrom == 2020

\* round(x, 1) of the non-negative rational n/d: the nearest tenth
round1(n, d) == Frac((2 * 10 * n + d) \div (2 * d), 10)

\* calculate_metrics: the accidents from 2020 on divided by the number of
\* their distinct years, rounded to one decimal; Python raises
\* ZeroDivisionError for len(...) / 0
calculate_metrics(t) ==
    LET recent_data == {k \in 1..Len(t.rows) : t.rows[k].ACCIDENT_YEAR >= RecentFrom}
        unique == {t.rows[k].ACCIDENT_YEAR : k \in recent_data}
    IN  IF Cardinality(unique) = 0
        THEN [ok |-> FALSE, error |-> "ZeroDivisionError", value |-> NoMetrics]
        ELSE [ok |-> TRUE, error |-> "",
              value |-> [annual_avg |-> round1(Cardinality(recent_data),
                                               Cardinality(unique)),
                         total_accidents |-> Len(t.rows)]]

\* the zones polygons_file has a polygon for
zones_data == {<<"5">>, <<"7">>, <<"1", "2">>}

\* the lower-case form of the one non-numeric ZONE value the table can hold
lower(zone) == IF zone = Unknown THEN <<"u", "n", "k", "n", "o", "w", "n">> ELSE zone

\* year_data['ZONE'].value_counts().to_dict(): the rows of the year per zone
zone_counts(t, year) ==
    LET year_data == {k \in 1..Len(t.rows) : t.rows[k].ACCIDENT_YEAR = year}
        zones == {t.rows[k].ZONE : k \in year_data}
    IN  [zone \in zones |->
           Cardinality({k \in year_data : t.rows[k].ZONE = zone})]

\* max(zone_counts.values()) if zone_counts else 1
max_count(counts) ==
    IF DOMAIN counts = {} THEN 1
    ELSE CHOOSE m \in {counts[z] : z \in DOMAIN counts} :
            \A z \in DOMAIN counts : counts[z] <= m

\* create_map(year), up to m.save: a colour scale up to the largest count and
\* one polygon, with its count, for every zone of the year that is not
\* 'unknown' and has a polygon
create_map(t, year) ==
    LET counts == zone_counts(t, year)
        drawn == {zone \in DOMAIN counts :
                    /\ lower(zone) # lower(Unknown)
                    /\ str_int(int_float(zone)) \in zones_data}
    IN  [exists |-> TRUE, written |-> TRUE, vmax |-> max_count(counts),
         polygons |-> {<<zone, counts[zone]>> : zone \in drawn}]

\* open(outfile, 'wb') of m.save: the file exists and is empty
Truncated == [exists |-> TRUE, written |-> FALSE, vmax |-> 0, polygons |-> {}]

\* the concurrent invocations of update_map_and_stats the model follows
MaxCalls == 2
CallIds == 1..MaxCalls

Idle == [pc |-> "idle", year |-> 0, map_html |-> NoFile]

\* the values the year-selector offers: sorted(self.df['ACCIDENT_YEAR'].unique())
year_selector(t) == {t.rows[k].ACCIDENT_YEAR : k \in 1..Len(t.rows)}

\* the raw ZONE texts and the years of the rows of facc.csv
ZoneInputs ==
    { <<"1", "2">>, <<"7", ".", "0">>, <<"5", " ">>, <<"1", ".", "2", ".", "3">>,
      <<"n", "a", "n">>, <<".">> }

Years == {RecentFrom - 1, RecentFrom, RecentFrom + 1}

InitAccidents ==
    /\ \E n \in 1..MaxRows :
          raw \in [1..n -> [ZONE : ZoneInputs, ACCIDENT_YEAR : Years]]
    /\ df = NoTable
    /\ pc = "app.load_data"
    /\ err = ""
    /\ metrics = NoMetrics
    /\ map_file = NoFile
    /\ calls = [c \in CallIds |-> Idle]
    /\ fingerprints = NoTable
    /\ similarity_matrix = <<>>
    /\ selected_idx = None
    /\ selected_violation = "None"
    /\ output = NoOutput
    /\ license_df = NoLicenses
    /\ log = <<>>

\* QatarAccidentsDashboard.__init__: load_data()
AccidentsLoadData ==
    /\ pc = "app.load_data"
    /\ LET r == load_accidents(raw)
       IN  /\ df' = r.value
           /\ pc' = IF r.ok THEN "app.create_dashboard" ELSE "app.failed"
           /\ err' = r.error
    /\ UNCHANGED <<raw, metrics, map_file, calls, license_df, log>>
    /\ UNCHANGED violations

\* run_dashboard: create_dashboard() computes the metrics, builds the layout
\* and the server starts
AccidentsCreateDashboard ==
    /\ pc = "app.create_dashboard"
    /\ LET r == calculate_metrics(df)
       IN  /\ metrics' = r.value
           /\ pc' = IF r.ok THEN "app.serving" ELSE "app.failed"
           /\ err' = r.error
    /\ UNCHANGED <<raw, df, map_file, calls, license_df, log>>
    /\ UNCHANGED violations

\* a request of the year-selector starts update_map_and_stats(year) in a
\* thread of the server
BeginCall(c, year) ==
    /\ pc = "app.serving"
    /\ calls[c].pc = "idle"
    /\ year \in year_selector(df)
    /\ calls' = [calls EXCEPT ![c] = [pc |-> "create_map", year |-> year,
                                      map_html |-> NoFile]]
    /\ UNCHANGED <<raw, df, pc, err, metrics, map_file, license_df, log>>
    /\ UNCHANGED violations

\* m.save(map_path) opens assets/map.html for writing
SaveOpen(c) ==
    /\ calls[c].pc = "create_map"
    /\ map_file' = Truncated
    /\ calls' = [calls EXCEPT ![c].pc = "save"]
    /\ UNCHANGED <<raw, df, pc, err, metrics, license_df, log>>
    /\ UNCHANGED violations

\* m.save(map_path) writes the rendered map and closes the file
SaveWrite(c) ==
    /\ calls[c].pc = "save"
    /\ map_file' = create_map(df, calls[c].year)
    /\ calls' = [calls EXCEPT ![c].pc = "read"]
    /\ UNCHANGED <<raw, df, pc, err, metrics, license_df, log>>
    /\ UNCHANGED violations

\* map_html = open(map_path, 'r').read()
ReadMap(c) ==
    /\ calls[c].pc = "read"
    /\ calls' = [calls EXCEPT ![c].pc = "done", ![c].map_html = map_file]
    /\ UNCHANGED <<raw, df, pc, err, metrics, map_file, license_df, log>>
    /\ UNCHANGED violations

\* return map_html, stats_content
ReturnCall(c) ==
    /\ calls[c].pc = "done"
    /\ calls' = [calls EXCEPT ![c] = Idle]
    /\ UNCHANGED <<raw, df, pc, err, metrics, map_file, license_df, log>>
    /\ UNCHANGED violations

NextAccidents ==
    \/ AccidentsLoadData
    \/ AccidentsCreateDashboard
    \/ \E c \in CallIds : \E year \in Years : BeginCall(c, year)
    \/ \E c \in CallIds : SaveOpen(c)
    \/ \E c \in CallIds : SaveWrite(c)
    \/ \E c \in CallIds : ReadMap(c)
    \/ \E c \in CallIds : ReturnCall(c)

SpecAccidents == InitAccidents /\ [][NextAccidents]_vars

----------------------------------------------------------------------------
\* Claims about the accidents dashboard.

\* an invocation of update_map_and_stats has read its map and is returning it
Returning(c) == calls[c].pc = "done"

\* C27 (as claimed): every invocation of update_map_and_stats(year) returns
\* the map HTML create_map built for that same year, also when invocations
\* for different years are in progress at the same time.
C27_OwnMapReturned ==
    \A c \in CallIds :
       Returning(c) => calls[c].map_html = create_map(df, calls[c].year)

\* create_dashboard has been called: it built the app or left by an exception
DashboardCalled ==
    \/ pc = "app.serving"
    \/ pc = "app.failed" /\ err = "ZeroDivisionError"

\* the accidents of the table from 2020 on, and their distinct years
RecentRows == {k \in 1..Len(df.rows) : df.rows[k].ACCIDENT_YEAR >= RecentFrom}
RecentYears == {df.rows[k].ACCIDENT_YEAR : k \in RecentRows}

\* C29 (as claimed): calculate_metrics returns a metrics record for every
\* loaded table, a table without an accident from 2020 on included, and its
\* annual_avg is the number of accidents from 2020 on divided by the number
\* of their distinct years.
C29_MetricsForEveryTable ==
    DashboardCalled =>
       /\ pc = "app.serving"
       /\ metrics.total_accidents = Len(df.rows)
       /\ metrics.annual_avg = Frac(Cardinality(RecentRows), Cardinality(RecentYears))

\* load_data has been called: it returned or left by an exception
LoadCalled == pc # "app.load_data"

\* the decimal string of an integer >= 0
Canonical(zone) == isdigit(zone) /\ str_int(DigitsValue(zone)) = zone

\* C30 (as claimed): the cleaning of ZONE at load never fails and is total:
\* every raw ZONE text becomes the decimal string of an integer or 'Unknown'
\* (digits with several dots, as '1.2.3', become 'Unknown'), and create_map
\* draws no polygon for 'Unknown'.
C30_CleaningTotal ==
    LoadCalled =>
       /\ err # "ValueError"
       /\ Len(df.rows) = Len(raw)
       /\ \A k \in 1..Len(df.rows) :
             /\ Canonical(df.rows[k].ZONE) \/ df.rows[k].ZONE = Unknown
             /\ df.rows[k].ZONE = clean_zone_guarded(strip(raw[k].ZONE)).value
       /\ \A year \in Years : \A p \in create_map(df, year).polygons : p[1] # Unknown

----------------------------------------------------------------------------
\* The license dashboard of liz.py (class LicenseDashboard).
\*
\* The file liz.csv is the record raw: whether it can be read, its columns
\* and its rows, a row being a function of the columns.  A FIRST_ISSUEDATE
\* cell is the text of a date, <<year, month>>, or a text that is no date,
\* <<0, 0>>; a BIRTHYEAR cell is <<year>>.

NoDate == <<0, 0>>

DateCells == {<<2023, 1>>, <<2024, 6>>, NoDate}

BirthYears == {<<1990>>, <<2000>>}

CellsOf(col) == IF col = "FIRST_ISSUEDATE" THEN DateCells ELSE BirthYears

LicenseColumns == {<<"FIRST_ISSUEDATE", "BIRTHYEAR">>, <<"FIRST_ISSUEDATE">>,
                   <<"BIRTHYEAR">>, <<>>}

MissingFile == [exists |-> FALSE, columns |-> <<>>, rows |-> <<>>]

LicenseFiles ==
    {MissingFile} \cup
    UNION { UNION { { [exists |-> TRUE, columns |-> cols, rows |-> rows] :
                        rows \in [1..n -> {r \in [Range(cols) -> DateCells \cup BirthYears] :
                                             \A col \in Range(cols) : r[col] \in CellsOf(col)}] } :
                    n \in 1..MaxRows } :
            cols \in LicenseColumns }

\* pd.to_datetime of a cell: a timestamp, or an exception for a text that is
\* no date
to_datetime(cell) ==
    IF cell[2] \in 1..12
    THEN [ok |-> TRUE, value |-> [year |-> cell[1], month |-> cell[2]]]
    ELSE [ok |-> FALSE, value |-> [year |-> 0, month |-> 0]]

\* frame[col] = values: the column is replaced, or appended when new
SetColumn(t, col, values) ==
    [none |-> FALSE,
     columns |-> IF col \in Range(t.columns) THEN t.columns
                 ELSE Append(t.columns, col),
     rows |-> [k \in 1..Len(t.rows) |->
                 [c \in Range(t.columns) \cup {col} |->
                    IF c = col THEN values[k] ELSE t.rows[k][c]]]]

\* the body of the try of load_data, statement by statement: the exception
\* of a statement ends it and keeps what the statements before assigned
try_load(file) ==
    LET read == [none |-> FALSE, columns |-> file.columns, rows |-> file.rows]
        dates == [k \in 1..Len(file.rows) |->
                    to_datetime(file.rows[k]["FIRST_ISSUEDATE"])]
        parsed == SetColumn(read, "FIRST_ISSUEDATE",
                            [k \in 1..Len(file.rows) |-> dates[k].value])
        age == SetColumn(parsed, "AGE",
                         [k \in 1..Len(file.rows) |->
                            dates[k].value.year - file.rows[k]["BIRTHYEAR"][1]])
        month == SetColumn(age, "MONTH",
                           [k \in 1..Len(file.rows) |-> dates[k].value.month])
        year == SetColumn(month, "YEAR",
                          [k \in 1..Len(file.rows) |-> dates[k].value.year])
    IN  IF ~file.exists
        THEN [error |-> "FileNotFoundError", license_df |-> NoLicenses]
        ELSE IF "FIRST_ISSUEDATE" \notin Range(file.columns)
        THEN [error |-> "KeyError", license_df |-> read]
        ELSE IF \E k \in 1..Len(file.rows) : ~dates[k].ok
        THEN [error |-> "ValueError", license_df |-> read]
        ELSE IF "BIRTHYEAR" \notin Range(file.columns)
        THEN [error |-> "KeyError", license_df |-> parsed]
        ELSE [error |-> "", license_df |-> year]

\* the layout of create_dashboard reads self.license_df['YEAR'] for the
\* options and the value of the year-selector
year_options(t) ==
    IF t.none THEN [ok |-> FALSE, error |-> "TypeError", value |-> {}]
    ELSE IF "YEAR" \notin Range(t.columns)
    THEN [ok |-> FALSE, error |-> "KeyError", value |-> {}]
    ELSE [ok |-> TRUE, error |-> "",
          value |-> {t.rows[k]["YEAR"] : k \in 1..Len(t.rows)}]

InitLicense ==
    /\ raw \in LicenseFiles
    /\ license_df = NoLicenses
    /\ log = <<>>
    /\ pc = "liz.load_data"
    /\ err = ""
    /\ df = NoTable
    /\ metrics = NoMetrics
    /\ map_file = NoFile
    /\ calls = <<>>
    /\ fingerprints = NoTable
    /\ similarity_matrix = <<>>
    /\ selected_idx = None
    /\ selected_violation = "None"
    /\ output = NoOutput

\* LicenseDashboard.__init__: load_data(); an exception is logged and
\* load_data returns
LicenseLoadData ==
    /\ pc = "liz.load_data"
    /\ LET r == try_load(raw)
       IN  /\ license_df' = r.license_df
           /\ log' = IF r.error = "" THEN log ELSE Append(log, r.error)
    /\ pc' = "liz.create_dashboard"
    /\ UNCHANGED <<raw, df, err, metrics, map_file, calls>>
    /\ UNCHANGED violations

\* run_dashboard: create_dashboard() builds the layout and returns the app
LicenseCreateDashboard ==
    /\ pc = "liz.create_dashboard"
    /\ LET r == year_options(license_df)
       IN  /\ pc' = IF r.ok THEN "liz.serving" ELSE "liz.failed"
           /\ err' = r.error
    /\ UNCHANGED <<raw, df, metrics, map_file, calls, license_df, log>>
    /\ UNCHANGED violations

NextLicense == LicenseLoadData \/ LicenseCreateDashboard

SpecLicense == InitLicense /\ [][NextLicense]_vars

----------------------------------------------------------------------------
\* Claims about the license dashboard.

\* reading or parsing the file fails in load_data
LoadFails(file) == try_load(file).error # ""

\* C28 (as claimed): a failure to read or parse the license CSV in load_data
\* is logged and absorbed, and the create_dashboard call that follows still
\* builds and returns the app.
C28_LoadFailureAbsorbed ==
    (pc # "liz.load_data" /\ LoadFails(raw)) =>
       /\ Len(log) = 1
       /\ pc \in {"liz.create_dashboard", "liz.serving"}

====
